---- MODULE Spec2Model ----
(***************************************************************************)
(* Model of awsLambdaHandlerBuilder (src/src/builder/                      *)
(* AwsLambdaHandlerBuilder.ts): one invocation of the handler it returns,  *)
(* from the content-type check to the response (or the rejection) the      *)
(* caller gets.                                                            *)
(*                                                                         *)
(* A JavaScript value that may be undefined is a sequence of length 0 or 1 *)
(* (<<>> is undefined/absent, <<x>> is x), so that every variable keeps    *)
(* one shape.                                                              *)
(***************************************************************************)
EXTENDS Integers, Sequences, FiniteSets, TLC

VARIABLES
    event,          \* the APIGatewayProxyEvent: httpMethod, headers, body
    config,         \* the handler's config: handlers, reflectors, mapping, bodySchema, timeoutMs
    builderConfig,  \* maxResponseSize, headers (security headers), corsOriginWhitelist
    pc,             \* where the invocation is
    clock,          \* the time, in model milliseconds
    timer,          \* <<t>> once the timeout operator armed its timer at time t
    i,              \* index of the stage that runs or is awaited
    query,          \* the value the current stage is given
    produced,       \* <<r>>: what the stage before the current one returned
    pending,        \* <<p>>: the Promise/Observable of stage i that is awaited
    created,        \* created[k]: how often stage k's factory was invoked
    executed,       \* executed[k]: how often stage k's execute was invoked
    result,         \* the value firstValueFrom(observable) gave
    thrown,         \* <<e>>: the error the catch block caught
    validated,      \* TRUE once validate() was called
    failed,         \* <<f>>: the stage whose failure ended the chain, and how
    serialized,     \* <<b>>: responseBody, once line 225 computed it (b is <<>> for undefined)
    response,       \* <<r>>: the APIGatewayProxyResult returned
    spent,          \* spent[k]: the time stage k has taken, running and awaited
    abandoned,      \* <<p>>: the stage the timeout unsubscribed from, its work still going on
    reported        \* <<errors>>: validator.errors, once the validator found the body invalid

vars == <<event, config, builderConfig, pc, clock, timer, i, query, produced,
          pending, created, executed, result, thrown, validated, failed,
          serialized, response, spent, abandoned, reported>>

----------------------------------------------------------------------------
(* Bounds of the model *)

MaxChain == 2
MaxClock == 3
MaxTimeout == 2
MaxFindings == 2
SmallResponseSize == 4

(* Program constants *)

DEFAULT_MAX_RESPONSE_SIZE == 6291456
DEFAULT_TIMEOUT == 29000

----------------------------------------------------------------------------
(* JavaScript values that flow through the chain *)

Undefined == [t |-> "undefined", s |-> <<>>]
Null == [t |-> "null", s |-> <<>>]
Str(chars) == [t |-> "string", s |-> chars]
Obj(json) == [t |-> "object", s |-> json]

EmptyObject == Obj(<<"{", "}">>)
ReflectedQuery == Obj(<<"{", "q", "}">>)

StageValues == {Undefined, Null, Str(<<"a", "a">>), Str(<<"U+00E9", "U+00E9">>)}

CoalesceNothing(v) == v

\* result ?? null
Coalesce(v) == IF v = Undefined \/ v = Null THEN Null ELSE v

\* JSON.stringify(value): <<>> when the value is undefined, else <<text>>
JSONstringify(v) ==
    CASE v.t = "undefined" -> <<>>
      [] v.t = "null" -> << <<"n", "u", "l", "l">> >>
      [] v.t = "string" -> << <<"\"">> \o v.s \o <<"\"">> >>
      [] OTHER -> <<v.s>>

\* "U+00E9" stands for the one character e-acute, two bytes in UTF-8
Utf8Len(c) == IF c = "U+00E9" THEN 2 ELSE 1

RECURSIVE ByteLength(_)
ByteLength(text) ==
    IF text = <<>> THEN 0 ELSE Utf8Len(Head(text)) + ByteLength(Tail(text))

----------------------------------------------------------------------------
(* Errors *)

ErrorOf(kind, message) == [kind |-> kind, message |-> message, errors |-> <<>>]

ContentTypeError == ErrorOf("Error", "Content-Type must be application/json")
SyntaxErr == ErrorOf("SyntaxError", "Unexpected token")
TypeErr == ErrorOf("TypeError", "Cannot read properties of undefined")
RequestTimeoutErr == ErrorOf("RequestTimeoutError", "Request timeout")
PayloadTooLargeErr == ErrorOf("PayloadTooLargeError", "Payload too large")
EmptyErr == ErrorOf("EmptyError", "no elements in sequence")
CustomErr == ErrorOf("CustomError", "custom")
ThrownString == ErrorOf("NotAnError", "")

\* error instanceof Error
IsError(e) == e.kind # "NotAnError"

\* error instanceof errorType: every error class extends Error
InstanceOf(e, errorType) == IsError(e) /\ (errorType = e.kind \/ errorType = "Error")

StageErrors == {CustomErr, EmptyErr, RequestTimeoutErr, ThrownString}

----------------------------------------------------------------------------
(* Objects with string keys: headers, findings, response entries *)

NoProps == <<>>

\* obj[name], <<>> when the object has no such property
Prop(obj, name) == IF name \in DOMAIN obj THEN <<obj[name]>> ELSE <<>>

SpreadKeepsFirst(a, b) == a @@ b

\* {...a, ...b}: b's properties overwrite a's
Spread(a, b) == b @@ a

\* JSON.stringify of an object whose properties are optional values:
\* an undefined property is left out
StringifyProps(o) == [f \in {g \in DOMAIN o : o[g] # <<>>} |-> o[f][1]]

----------------------------------------------------------------------------
(* Origin Policy *)

RECURSIVE Includes(_, _)
Includes(list, x) ==
    IF list = <<>> THEN FALSE
    ELSE IF Head(list) = x THEN TRUE ELSE Includes(Tail(list), x)

\* !x of an optional string: undefined and "" are falsy
Falsy(opt) == opt = <<>> \/ opt[1] = ""

validateOrigin(requestOrigin, whitelist) ==
    IF whitelist = <<>> \/ Falsy(requestOrigin) THEN "*"
    ELSE IF Includes(whitelist[1], requestOrigin[1]) THEN requestOrigin[1] ELSE "null"

----------------------------------------------------------------------------
(* Validation Gate: formatErrors and validate *)

NonEmptyString(x) == x # ""

RECURSIVE Join(_)
\* segments.join('.')
Join(segments) ==
    IF Len(segments) <= 1 THEN segments
    ELSE <<Head(segments), ".">> \o Join(Tail(segments))

\* An Ajv ErrorObject.  instancePath is the result of instancePath.split('/').
AjvError(path, keyword, missing, additional, format, message, inner, schema) ==
    [instancePath |-> path, keyword |-> keyword, missingProperty |-> missing,
     additionalProperty |-> additional, format |-> format, message |-> message,
     errors |-> inner, schema |-> schema]

ErrFormat == AjvError(<<"", "email">>, "format", <<>>, <<>>, <<"email">>,
                      <<"must match format">>, <<>>, <<>>)
ErrMinLength == AjvError(<<"", "name">>, "minLength", <<>>, <<>>, <<>>,
                         <<"must NOT have fewer characters">>, <<>>, <<>>)
ErrRequired == AjvError(<<"">>, "required", <<"password">>, <<>>, <<>>,
                        <<"must have required property">>, <<>>, <<>>)
ErrAdditional == AjvError(<<"">>, "additionalProperties", <<>>, <<"extra">>, <<>>,
                          <<"must NOT have additional properties">>, <<>>, <<>>)
ErrNestedRequired == AjvError(<<"", "user">>, "required", <<"name">>, <<>>, <<>>,
                              <<"must have required property">>, <<>>, <<>>)
ErrNestedAdditional == AjvError(<<"", "user", "address">>, "additionalProperties", <<>>,
                                <<"zip">>, <<>>,
                                <<"must NOT have additional properties">>, <<>>, <<>>)
ErrRootFormat == AjvError(<<"">>, "format", <<>>, <<>>, <<"email">>,
                          <<"must match format">>, <<>>, <<>>)
ErrNoMessage == AjvError(<<"">>, "type", <<>>, <<>>, <<>>, <<>>, <<>>, <<>>)
ErrComposite == AjvError(<<"", "name">>, "errorMessage", <<>>, <<>>, <<>>,
                         <<"ignored">>, << <<"minLength", "pattern">> >>,
                         <<("minLength" :> "Name is too short")>>)

AjvErrorObjects == {ErrFormat, ErrMinLength, ErrRequired, ErrAdditional,
                    ErrNestedRequired, ErrNestedAdditional, ErrRootFormat,
                    ErrNoMessage, ErrComposite}

\* the key formatErrors gives one ErrorObject
ErrorKey(error) ==
    LET pathSegments == SelectSeq(error.instancePath, NonEmptyString)
        parentPath == Join(pathSegments)
    IN  IF Len(pathSegments) > 0 THEN Join(pathSegments)
        ELSE IF ~Falsy(error.missingProperty)
             THEN IF parentPath # <<>>
                  THEN parentPath \o <<".", error.missingProperty[1]>>
                  ELSE <<error.missingProperty[1]>>
        ELSE IF ~Falsy(error.additionalProperty)
             THEN IF parentPath # <<>>
                  THEN parentPath \o <<".", error.additionalProperty[1]>>
                  ELSE <<error.additionalProperty[1]>>
        ELSE IF ~Falsy(error.format)
             THEN IF Len(pathSegments) > 0 THEN Join(pathSegments)
                  ELSE <<error.format[1]>>
        ELSE <<"generic">>

Finding(key, message) == [key |-> key, message |-> message]

RECURSIVE CompositeMessages(_, _, _)
\* error.params.errors.forEach: one finding per inner keyword the schema words
CompositeMessages(key, inner, schema) ==
    IF inner = <<>> THEN <<>>
    ELSE LET msg == IF schema = <<>> THEN <<>> ELSE Prop(schema[1], Head(inner))
         IN  (IF Falsy(msg) THEN <<>> ELSE <<Finding(key, msg[1])>>)
             \o CompositeMessages(key, Tail(inner), schema)

\* the findings formatErrors pushes for one ErrorObject
FindingsOf(error) ==
    IF error.keyword = "errorMessage" /\ error.errors # <<>>
    THEN CompositeMessages(ErrorKey(error), error.errors[1], error.schema)
    ELSE IF ~Falsy(error.message)
         THEN <<Finding(ErrorKey(error), error.message[1])>>
         ELSE <<>>

RECURSIVE formatErrors(_)
formatErrors(errors) ==
    IF errors = <<>> THEN <<>>
    ELSE FindingsOf(Head(errors)) \o formatErrors(Tail(errors))

SchemaValidationErr(findings) ==
    [kind |-> "SchemaValidationError", message |-> "Validation failed",
     errors |-> <<findings>>]

\* what the compiled validator can report: no error, or up to MaxFindings errors
ValidatorErrors ==
    UNION {[1..n -> AjvErrorObjects] : n \in 0..MaxFindings}

----------------------------------------------------------------------------
(* Error Classifier *)

NoRules == <<>>

\* errorMapping of the catch block: the user's mapping spread first, then the
\* keys 400, 408 and 413 set.  A JavaScript object with integer keys is a
\* function of its keys: it keeps no insertion order.
errorMapping(userMapping) ==
    LET user == IF userMapping = <<>> THEN NoRules ELSE userMapping[1]
    IN  [code \in DOMAIN user \cup {400, 408, 413} |->
            IF code = 400
            THEN (IF 400 \in DOMAIN user THEN user[400] ELSE <<>>)
                 \o <<"SchemaValidationError">>
            ELSE IF code = 408 THEN <<"RequestTimeoutError">>
            ELSE IF code = 413 THEN <<"PayloadTooLargeError">>
            ELSE user[code]]

Min(S) == CHOOSE x \in S : \A y \in S : x <= y

RECURSIVE EntriesAscending(_, _)
EntriesAscending(obj, keys) ==
    IF keys = {} THEN <<>>
    ELSE LET k == Min(keys)
         IN  <<<<k, obj[k]>>>> \o EntriesAscending(obj, keys \ {k})

\* Object.entries(obj) of an object with integer keys: ascending key order
ObjectEntries(obj) == EntriesAscending(obj, DOMAIN obj)

\* errorTypes.some(errorType => error instanceof errorType)
SomeInstanceOf(error, errorTypes) ==
    \E k \in DOMAIN errorTypes : InstanceOf(error, errorTypes[k])

RECURSIVE FirstMatch(_, _)
FirstMatch(error, entries) ==
    IF entries = <<>> THEN 500
    ELSE IF SomeInstanceOf(error, Head(entries)[2]) THEN Head(entries)[1]
    ELSE FirstMatch(error, Tail(entries))

\* statusCode of the catch block
StatusCodeOf(error, userMapping) ==
    IF IsError(error)
    THEN FirstMatch(error, ObjectEntries(errorMapping(userMapping)))
    ELSE 500

----------------------------------------------------------------------------
(* Response Assembler *)

DEFAULT_SECURITY_HEADERS ==
    ("Strict-Transport-Security" :> "max-age=31536000; includeSubDomains")
    @@ ("X-Content-Type-Options" :> "nosniff")
    @@ ("X-Frame-Options" :> "DENY")
    @@ ("Content-Security-Policy" :> "default-src 'none'")
    @@ ("Cache-Control" :> "no-store, max-age=0")
    @@ ("Pragma" :> "no-cache")

maxResponseSize(bc) ==
    IF bc.maxResponseSize = <<>> THEN DEFAULT_MAX_RESPONSE_SIZE
    ELSE bc.maxResponseSize[1]

securityHeaders(bc) ==
    IF bc.headers = <<>> THEN DEFAULT_SECURITY_HEADERS ELSE bc.headers[1]

timeoutMs(cfg) == IF cfg.timeoutMs = <<>> THEN DEFAULT_TIMEOUT ELSE cfg.timeoutMs[1]

\* the headers of a response, success or failure
ResponseHeaders(ev, bc) ==
    LET allowedOrigin == validateOrigin(Prop(ev.headers[1], "origin"),
                                        bc.corsOriginWhitelist)
        corsHeaders == ("Access-Control-Allow-Origin" :> allowedOrigin)
    IN  Spread(Spread(securityHeaders(bc), corsHeaders),
               ("Content-Type" :> "application/json"))

TooLargeOrEqual(responseBody, bc) == ByteLength(responseBody) >= maxResponseSize(bc)

\* Buffer.byteLength(responseBody) > maxResponseSize
TooLarge(responseBody, bc) == ByteLength(responseBody) > maxResponseSize(bc)

SuccessResponse(responseBody, ev, bc) ==
    [statusCode |-> 200, headers |-> ResponseHeaders(ev, bc),
     body |-> [text |-> <<responseBody>>, error |-> <<>>]]

\* error.errors.map(err => ({path: err.schemaPath, message: err.message,
\*                           keyword: err.keyword, params: err.params}))
ValidationEntry(err) ==
    StringifyProps([path |-> Prop(err, "schemaPath"), message |-> Prop(err, "message"),
                    keyword |-> Prop(err, "keyword"), params |-> Prop(err, "params")])

ValidationEntries(findings) ==
    [k \in DOMAIN findings |-> ValidationEntry(findings[k])]

errorBody(error, statusCode, now) ==
    [message |-> IF IsError(error) THEN error.message ELSE "Unexpected error occurred",
     code |-> statusCode,
     requestId |-> "awsRequestId",
     timestamp |-> now,
     validationErrors |->
        IF error.kind = "SchemaValidationError" /\ error.errors # <<>>
        THEN <<ValidationEntries(error.errors[1])>>
        ELSE <<>>]

ErrorResponse(error, ev, cfg, bc, now) ==
    LET statusCode == StatusCodeOf(error, cfg.errorToStatusCodeMapping)
    IN  [statusCode |-> statusCode, headers |-> ResponseHeaders(ev, bc),
         body |-> [text |-> <<>>, error |-> <<errorBody(error, statusCode, now)>>]]

----------------------------------------------------------------------------
(* Events and configurations *)

AllowedOrigin == "https://ok.com"
OtherOrigin == "https://evil.com"

ContentTypeHeaders ==
    {NoProps,
     ("content-type" :> "application/json"),
     ("content-type" :> "application/json; charset=utf-8"),
     ("Content-Type" :> "application/json"),
     ("content-type" :> "text/plain")}

OriginHeaders ==
    {NoProps,
     ("origin" :> AllowedOrigin),
     ("origin" :> OtherOrigin),
     ("Origin" :> OtherOrigin)}

\* value.includes('application/json')
IncludesApplicationJson(value) ==
    value \in {"application/json", "application/json; charset=utf-8"}

ValidBody == "{\"name\":\"Al\"}"
ReshapedBody == "{\"reshaped\":1}"
BodyTexts == {"", "{bad", ValidBody}

JSONparsesAnything(text) == TRUE

\* JSON.parse(text) throws a SyntaxError unless text is JSON
JSONparses(text) == text \in {"{}", ValidBody, ReshapedBody}

Event(method, headers, body) ==
    [httpMethod |-> method, headers |-> headers, body |-> body]

Config(n, bodyReflector, queryReflector, mapping, schema, timeout) ==
    [handlers |-> n, initialBodyReflector |-> bodyReflector,
     initialQueryReflector |-> queryReflector,
     errorToStatusCodeMapping |-> mapping, bodySchema |-> schema,
     timeoutMs |-> timeout]

BuilderConfig(size, headers, whitelist) ==
    [maxResponseSize |-> size, headers |-> headers, corsOriginWhitelist |-> whitelist]

\* errorToStatusCodeMapping: undefined, or one rule {code: [class]}
UserMappings ==
    {<<>>,
     <<(400 :> <<"CustomError">>)>>,
     <<(404 :> <<"CustomError">>)>>,
     <<(404 :> <<"PayloadTooLargeError">>)>>,
     <<(404 :> <<"Error">>)>>,
     <<(408 :> <<"CustomError">>)>>,
     <<(408 :> <<"PayloadTooLargeError">>)>>,
     <<(413 :> <<"CustomError">>)>>,
     <<(504 :> <<"RequestTimeoutError">>)>>,
     <<(504 :> <<"PayloadTooLargeError">>)>>}

Timeouts == {<<t>> : t \in 1..MaxTimeout}

CustomHeaders ==
    ("X-Custom-Security" :> "MyCustomValue")
    @@ ("Access-Control-Allow-Origin" :> OtherOrigin)
    @@ ("Content-Type" :> "text/html")

Whitelists == {<<>>, <<<<>>>>, <<<<AllowedOrigin>>>>}

JsonHeaders == ("content-type" :> "application/json") @@ ("origin" :> AllowedOrigin)

Sizes == {<<>>, <<SmallResponseSize>>}

\* Specification Spec: the chain.  Every chain length and stage behaviour,
\* under every timeout and both size limits with the default mapping, and under
\* every mapping with the shortest timeout and the small size limit; one
\* request that is validated and reshaped.
ChainStarts ==
    {<<Event("GET", <<JsonHeaders>>, <<>>), Config(n, FALSE, q, <<>>, FALSE, t),
       BuilderConfig(size, <<>>, <<>>)>> :
        n \in 0..MaxChain, q \in BOOLEAN, t \in Timeouts, size \in Sizes}
    \cup
    {<<Event("GET", <<JsonHeaders>>, <<>>), Config(n, FALSE, FALSE, m, FALSE, <<1>>),
       BuilderConfig(<<SmallResponseSize>>, <<>>, <<>>)>> :
        n \in 0..MaxChain, m \in UserMappings}
    \cup
    {<<Event("POST", <<JsonHeaders>>, <<ValidBody>>),
       Config(1, TRUE, TRUE, <<>>, TRUE, <<>>), BuilderConfig(<<>>, <<>>, <<>>)>>}

\* Specification SpecRequest: the request and the response.  Every method,
\* content type, body, schema and body reflector over a chain of at most one
\* stage; every origin, allow-list and security-header setting.
RequestStarts ==
    {<<Event(m, h, b), Config(n, br, FALSE, <<>>, schema, <<1>>),
       BuilderConfig(<<>>, <<>>, <<>>)>> :
        m \in {"GET", "POST", "PUT"},
        h \in {<<>>} \cup {<<ct>> : ct \in ContentTypeHeaders},
        b \in {<<>>} \cup {<<t>> : t \in BodyTexts},
        n \in 0..1, br \in BOOLEAN, schema \in BOOLEAN}
    \cup
    {<<Event("GET", <<o>>, <<>>), Config(1, FALSE, FALSE, <<>>, schema, <<1>>),
       BuilderConfig(<<SmallResponseSize>>, h, w)>> :
        o \in OriginHeaders, schema \in BOOLEAN,
        h \in {<<>>, <<CustomHeaders>>}, w \in Whitelists}

----------------------------------------------------------------------------
(* The invocation *)

Stages == 0..(MaxChain - 1)

Start(ev, cfg, bc) ==
    /\ event = ev
    /\ config = cfg
    /\ builderConfig = bc
    /\ pc = "received"
    /\ clock = 0
    /\ timer = <<>>
    /\ i = 0
    /\ query = Undefined
    /\ produced = <<>>
    /\ pending = <<>>
    /\ created = [k \in Stages |-> 0]
    /\ executed = [k \in Stages |-> 0]
    /\ result = Undefined
    /\ thrown = <<>>
    /\ validated = FALSE
    /\ failed = <<>>
    /\ serialized = <<>>
    /\ response = <<>>
    /\ spent = [k \in Stages |-> 0]
    /\ abandoned = <<>>
    /\ reported = <<>>

Init == \E s \in ChainStarts : Start(s[1], s[2], s[3])

InitRequest == \E s \in RequestStarts : Start(s[1], s[2], s[3])

\* throw inside the try block: control goes to the catch block
Throw(error) ==
    /\ thrown' = <<error>>
    /\ pc' = "catch"

RunsValidationOnJsonWrites(ev, cfg) ==
    /\ cfg.bodySchema
    /\ ev.httpMethod \in {"POST", "PUT"}

\* if (config.bodySchema)
RunsValidation(ev, cfg) == cfg.bodySchema

\* lines 178-181, and the test of config.bodySchema at line 183
CheckContentType ==
    /\ pc = "received"
    /\ IF event.httpMethod \in {"POST", "PUT"} /\ event.headers = <<>>
       THEN Throw(TypeErr)
       ELSE IF /\ event.httpMethod \in {"POST", "PUT"}
               /\ LET contentType == Prop(event.headers[1], "content-type")
                  IN  contentType = <<>> \/ ~IncludesApplicationJson(contentType[1])
            THEN Throw(ContentTypeError)
            ELSE /\ pc' = IF RunsValidation(event, config) THEN "validating" ELSE "extracting"
                 /\ UNCHANGED thrown
    /\ UNCHANGED <<event, config, builderConfig, clock, timer, i, query, produced,
                   pending, created, executed, result, validated, failed,
                   serialized, response, spent, abandoned, reported>>

\* lines 184-185: JSON.parse(event.body || "{}") and validate(schema, bodyData)
ValidateBody ==
    /\ pc = "validating"
    /\ LET text == IF Falsy(event.body) THEN "{}" ELSE event.body[1]
       IN  IF ~JSONparses(text)
           THEN Throw(SyntaxErr) /\ UNCHANGED <<validated, reported>>
           ELSE /\ validated' = TRUE
                /\ \E errors \in ValidatorErrors :
                      IF errors = <<>>
                      THEN pc' = "extracting" /\ UNCHANGED <<thrown, reported>>
                      ELSE /\ reported' = <<errors>>
                           /\ Throw(SchemaValidationErr(formatErrors(errors)))
    /\ UNCHANGED <<event, config, builderConfig, clock, timer, i, query, produced,
                   pending, created, executed, result, failed, serialized, response,
                   spent, abandoned>>

initialQueryUnreflected(cfg) == EmptyObject

\* lines 194-196
initialQuery(cfg) == IF cfg.initialQueryReflector THEN ReflectedQuery ELSE EmptyObject

\* lines 188-220: the two reflections, then the chain is built and subscribed
\* to; with no handler from([initialQuery]) gives the query itself at once
Extract ==
    /\ pc = "extracting"
    /\ LET text == IF Falsy(event.body) THEN "" ELSE event.body[1]
       IN  IF config.initialBodyReflector /\ ~JSONparses(text)
           THEN /\ Throw(SyntaxErr)
                /\ UNCHANGED <<event, query, result>>
           ELSE /\ \E reshaped \in (IF config.initialBodyReflector THEN BOOLEAN ELSE {FALSE}) :
                      event' = IF reshaped
                               THEN [event EXCEPT !.body = <<ReshapedBody>>]
                               ELSE event
                /\ IF config.handlers = 0
                   THEN /\ result' = initialQuery(config)
                        /\ pc' = "serializing"
                        /\ UNCHANGED query
                   ELSE /\ query' = initialQuery(config)
                        /\ pc' = "running"
                        /\ UNCHANGED result
                /\ UNCHANGED thrown
    /\ UNCHANGED <<config, builderConfig, clock, timer, i, produced, pending,
                   created, executed, validated, failed, serialized, response,
                   spent, abandoned, reported>>

\* a stage of the chain runs or is awaited
Running == pc \in {"running", "awaiting"}

\* the time the timeout operator's timer is due
Due == timer[1] + timeoutMs(config)

\* firstValueFrom(observable) gives a value: the last switchMap emitted
\* (lines 207, 220), or the next stage's map runs with it (line 202)
Emit(value) ==
    IF i + 1 < config.handlers
    THEN /\ i' = i + 1
         /\ query' = value
         /\ pc' = "running"
         /\ UNCHANGED <<result, thrown, failed>>
    ELSE /\ result' = value
         /\ pc' = "serializing"
         /\ UNCHANGED <<i, query, thrown, failed>>

ChainErrorRetries(cause, error) ==
    /\ failed' = <<[stage |-> i, cause |-> cause, error |-> error]>>
    /\ pc' = "running"
    /\ UNCHANGED <<i, query, result, thrown>>

\* the observable errors: firstValueFrom rejects, and the catch of lines
\* 220-223 turns an EmptyError into the result null
ChainError(cause, error) ==
    /\ failed' = <<[stage |-> i, cause |-> cause, error |-> error]>>
    /\ IF error.kind = "EmptyError"
       THEN /\ result' = Null
            /\ pc' = "serializing"
            /\ UNCHANGED <<i, query, thrown>>
       ELSE /\ Throw(error)
            /\ UNCHANGED <<i, query, result>>

Produced(kind, value) == [stage |-> i, kind |-> kind, value |-> value]

\* lines 202-207 for stage i: createHandler(query, event), handler.execute(query),
\* and what execute returns.  Stage 0 runs while firstValueFrom subscribes; the
\* timeout operator arms its timer when that subscription returns.
RunStage ==
    /\ pc = "running"
    /\ created' = [created EXCEPT ![i] = @ + 1]
    /\ \/ \E error \in StageErrors :          \* createHandler throws
            /\ ChainError("createHandler", error)
            /\ UNCHANGED <<executed, produced, pending, timer>>
       \/ \E error \in StageErrors :          \* execute throws
            /\ executed' = [executed EXCEPT ![i] = @ + 1]
            /\ ChainError("execute", error)
            /\ UNCHANGED <<produced, pending, timer>>
       \/ \E value \in StageValues :          \* execute returns a plain value
            /\ executed' = [executed EXCEPT ![i] = @ + 1]
            /\ produced' = <<Produced("value", value)>>
            /\ Emit(Coalesce(value))
            /\ timer' = IF i = 0 THEN <<clock>> ELSE timer
            /\ UNCHANGED pending
       \/ \E kind \in {"promise", "observable"}, settled \in BOOLEAN :
            /\ executed' = [executed EXCEPT ![i] = @ + 1]
            /\ pending' = <<[kind |-> kind, settled |-> settled]>>
            /\ pc' = "awaiting"
            /\ timer' = IF i = 0 THEN <<clock>> ELSE timer
            /\ UNCHANGED <<i, query, produced, result, thrown, failed>>
    /\ UNCHANGED <<event, config, builderConfig, clock, validated, serialized, response,
                   spent, abandoned, reported>>

\* the Promise (or firstValueFrom of the Observable) stage i returned settles.
\* One that was settled when execute returned is delivered before any timer;
\* another is delivered only while the timer is not due.
Settle ==
    /\ pc = "awaiting"
    /\ pending[1].settled \/ clock < Due
    /\ \/ \E value \in StageValues :
            /\ produced' = <<Produced(pending[1].kind, value)>>
            /\ Emit(value)
       \/ \E error \in StageErrors :
            /\ ChainError("rejected", error)
            /\ UNCHANGED produced
       \/ /\ pending[1].kind = "observable"   \* completes without a value
          /\ ChainError("empty", EmptyErr)
          /\ UNCHANGED produced
    /\ pending' = <<>>
    /\ UNCHANGED <<event, config, builderConfig, clock, timer, created, executed,
                   validated, serialized, response, spent, abandoned, reported>>

\* lines 211-218: the timer of timeout({first}) fires while stage i is awaited
TimerFires ==
    /\ pc = "awaiting"
    /\ ~pending[1].settled
    /\ clock >= Due
    /\ Throw(RequestTimeoutErr)
    /\ pending' = <<>>
    /\ abandoned' = <<[stage |-> i, kind |-> pending[1].kind, completed |-> FALSE]>>
    /\ UNCHANGED <<event, config, builderConfig, clock, timer, i, query, produced,
                   created, executed, result, validated, failed, serialized, response,
                   spent, reported>>

\* time passes: while synchronous code runs, or while a stage is awaited and
\* the timer is not due
Tick ==
    /\ clock < MaxClock
    /\ \/ pc \in {"validating", "extracting", "running"}
       \/ pc = "awaiting" /\ ~pending[1].settled /\ clock < Due
    /\ clock' = clock + 1
    /\ spent' = IF Running THEN [spent EXCEPT ![i] = @ + 1] ELSE spent
    /\ UNCHANGED <<event, config, builderConfig, pc, timer, i, query, produced,
                   pending, created, executed, result, thrown, validated, failed,
                   serialized, response, abandoned, reported>>

\* lines 225-244
Serialize ==
    /\ pc = "serializing"
    /\ serialized' = <<JSONstringify(result)>>
    /\ LET responseBody == JSONstringify(result)
       IN  IF responseBody = <<>>
           THEN Throw(TypeErr) /\ UNCHANGED response   \* Buffer.byteLength(undefined)
           ELSE IF TooLarge(responseBody[1], builderConfig)
           THEN Throw(PayloadTooLargeErr) /\ UNCHANGED response
           ELSE IF event.headers = <<>>
           THEN Throw(TypeErr) /\ UNCHANGED response   \* event.headers.origin
           ELSE /\ response' = <<SuccessResponse(responseBody[1], event, builderConfig)>>
                /\ pc' = "done"
                /\ UNCHANGED thrown
    /\ UNCHANGED <<event, config, builderConfig, clock, timer, i, query, produced,
                   pending, created, executed, result, validated, failed,
                   spent, abandoned, reported>>

\* lines 246-295: with no event.headers the read of event.headers.origin at
\* line 283 throws out of the catch block, and the handler's promise rejects
Catch ==
    /\ pc = "catch"
    /\ IF event.headers = <<>>
       THEN pc' = "rejected" /\ UNCHANGED response
       ELSE /\ response' = <<ErrorResponse(thrown[1], event, config, builderConfig, clock)>>
            /\ pc' = "done"
    /\ UNCHANGED <<event, config, builderConfig, clock, timer, i, query, produced,
                   pending, created, executed, result, thrown, validated, failed,
                   serialized, spent, abandoned, reported>>

LateResultDelivered(value) == Emit(value)

\* what a result of the abandoned stage changes: the timeout operator
\* unsubscribed from the chain when it fired and firstValueFrom has rejected
\* (lines 211-223), so nothing takes the value
LateResult(value) == UNCHANGED <<i, query, pc, result, thrown, failed>>

\* the work of the stage that was awaited when the timer fired goes on, and
\* ends: its Promise settles or its Observable emits or completes
SettleLate ==
    /\ abandoned # <<>>
    /\ ~abandoned[1].completed
    /\ abandoned' = <<[abandoned[1] EXCEPT !.completed = TRUE]>>
    /\ \/ \E value \in StageValues : LateResult(value)
       \/ UNCHANGED <<i, query, pc, result, thrown, failed>>   \* rejects, or completes empty
    /\ UNCHANGED <<event, config, builderConfig, clock, timer, produced, pending,
                   created, executed, validated, serialized, response, spent, reported>>

Next ==
    \/ CheckContentType
    \/ ValidateBody
    \/ Extract
    \/ RunStage
    \/ Settle
    \/ TimerFires
    \/ Tick
    \/ Serialize
    \/ Catch
    \/ SettleLate

Spec == Init /\ [][Next]_vars

SpecRequest == InitRequest /\ [][Next]_vars

----------------------------------------------------------------------------
(* Properties of the handler chain *)

Status == response[1].statusCode

UserRules ==
    IF config.errorToStatusCodeMapping = <<>> THEN NoRules
    ELSE config.errorToStatusCodeMapping[1]

\* the stages run one after the other: stage i starts only when stage i-1 has
\* given its result, each stage before it has run, no stage after it has
\* started, and a result is awaited from stage i alone
StagesInSequence ==
    /\ Running /\ i > 0 => produced # <<>> /\ produced[1].stage = i - 1
    /\ Running => \A k \in Stages : k < i => created[k] = 1 /\ executed[k] = 1
    /\ \A k \in Stages : k > i => created[k] = 0 /\ executed[k] = 0
    /\ pc = "running" => created[i] = 0 /\ executed[i] = 0 /\ pending = <<>>
    /\ pending # <<>> => pc = "awaiting" /\ executed[i] = 1

C2_FailureEndsChainWithErrorStatus ==
    failed # <<>> /\ failed[1].cause # "empty" =>
        /\ \A k \in Stages : k > failed[1].stage => created[k] = 0 /\ executed[k] = 0
        /\ pc = "done" =>
              /\ Status = StatusCodeOf(failed[1].error, config.errorToStatusCodeMapping)
              /\ Status # 200
              /\ response[1].body.text = <<>>

\* C3, as stated: whatever the event, the configuration and the stages do, the
\* invocation ends by returning a response with status, headers and body, and
\* no error is re-thrown to the caller.
C3_AlwaysAResponse ==
    /\ pc # "rejected"
    /\ pc = "done" => response # <<>>

\* C4, as stated: when the deadline of timeoutMs has elapsed before the
\* pipeline succeeded, the invocation fails with status 408 and body code 408,
\* whichever part of the pipeline the time was spent in.
C4_DeadlineElapsedGives408 ==
    pc = "done" /\ clock > timeoutMs(config) =>
        /\ Status = 408
        /\ response[1].body.error # <<>>
        /\ response[1].body.error[1].code = 408

Oversized ==
    /\ serialized # <<>>
    /\ serialized[1] # <<>>
    /\ ByteLength(serialized[1][1]) > maxResponseSize(builderConfig)

ExactlyMaxSize ==
    /\ serialized # <<>>
    /\ serialized[1] # <<>>
    /\ ByteLength(serialized[1][1]) = maxResponseSize(builderConfig)

\* the user's rules that come before 413 and list PayloadTooLargeError or a
\* class it extends; the user's list under 408 is not kept
RulesBefore413 ==
    {code \in DOMAIN UserRules :
        /\ code < 413
        /\ code # 408
        /\ \E k \in DOMAIN UserRules[code] :
              UserRules[code][k] \in {"PayloadTooLargeError", "Error"}}

\* C5, as stated: a serialized result larger in bytes than maxResponseSize gives
\* status 413 and is not returned, a 200 never carries a body larger than
\* maxResponseSize, and a body of exactly maxResponseSize bytes is a 200.
C5_OversizeIs413 ==
    pc = "done" =>
        /\ Oversized => Status = 413 /\ response[1].body.text = <<>>
        /\ Status = 200 => ByteLength(response[1].body.text[1]) <= maxResponseSize(builderConfig)
        /\ ExactlyMaxSize => Status = 200

\* C5, amended: a serialized result larger in bytes than maxResponseSize is not
\* returned and gives status 413, unless errorToStatusCodeMapping lists
\* PayloadTooLargeError (or a class it extends) under a status below 413 other
\* than 408, and then the smallest such status; a 200 never carries a body
\* larger than maxResponseSize; a body of exactly maxResponseSize bytes is a 200.
C5_OversizeIsAnError ==
    pc = "done" =>
        /\ Oversized =>
              /\ Status = IF RulesBefore413 = {} THEN 413 ELSE Min(RulesBefore413)
              /\ response[1].body.text = <<>>
        /\ Status = 200 => ByteLength(response[1].body.text[1]) <= maxResponseSize(builderConfig)
        /\ ExactlyMaxSize => Status = 200

\* a result of more bytes than characters, over the cap in bytes only, answered 413
C5_Witness ==
    /\ pc = "done"
    /\ Oversized
    /\ Len(serialized[1][1]) <= maxResponseSize(builderConfig)
    /\ Status = 413

BuiltInStatus(error) ==
    CASE error.kind = "SchemaValidationError" -> 400
      [] error.kind = "RequestTimeoutError" -> 408
      [] error.kind = "PayloadTooLargeError" -> 413
      [] OTHER -> 0

\* C6, as stated: the user's rules are evaluated before the built-in rules, so
\* when a user rule and a built-in rule for another status both match the
\* error, the response has the user rule's status.
C6_UserRuleBeforeBuiltIn ==
    pc = "done" /\ thrown # <<>> =>
        \A code \in DOMAIN UserRules :
            /\ SomeInstanceOf(thrown[1], UserRules[code])
            /\ BuiltInStatus(thrown[1]) \notin {0, code}
            => Status = code

\* C7, as stated: a body that fails the schema gives status 400 and a body with
\* one entry per finding of the SchemaValidationError, each entry carrying the
\* finding's path (its key) and its message.
C7_EveryFindingWithPathAndMessage ==
    pc = "done" /\ thrown # <<>> /\ thrown[1].kind = "SchemaValidationError" =>
        LET findings == thrown[1].errors[1]
            body == response[1].body.error[1]
        IN  /\ Status = 400
            /\ body.validationErrors # <<>>
            /\ Len(body.validationErrors[1]) = Len(findings)
            /\ \A k \in DOMAIN findings :
                  LET entry == body.validationErrors[1][k]
                  IN  /\ "message" \in DOMAIN entry
                      /\ entry["message"] = findings[k].message
                      /\ "path" \in DOMAIN entry
                      /\ entry["path"] = findings[k].key

\* the origin the request declares: header names are case-insensitive
DeclaredOrigin ==
    LET names == {name \in {"origin", "Origin"} : name \in DOMAIN event.headers[1]}
    IN  IF names = {} THEN <<>> ELSE <<event.headers[1][CHOOSE name \in names : TRUE]>>

\* C8, as stated: in every response the Access-Control-Allow-Origin value is
\* '*' with no allow-list, the request's origin when it is listed, 'null' when
\* it is present and not listed, '*' when no origin is declared.
C8_OriginPolicy ==
    pc = "done" =>
        response[1].headers["Access-Control-Allow-Origin"] =
            IF builderConfig.corsOriginWhitelist = <<>> THEN "*"
            ELSE IF DeclaredOrigin = <<>> THEN "*"
            ELSE IF \E k \in DOMAIN builderConfig.corsOriginWhitelist[1] :
                       builderConfig.corsOriginWhitelist[1][k] = DeclaredOrigin[1]
                 THEN DeclaredOrigin[1]
                 ELSE "null"

InValidation ==
    \/ pc = "validating"
    \/ validated
    \/ thrown # <<>> /\ thrown[1].kind = "SchemaValidationError"

\* the request passed the check of lines 178-181
PassedContentTypeCheck ==
    event.httpMethod \in {"POST", "PUT"} =>
        /\ event.headers # <<>>
        /\ "content-type" \in DOMAIN event.headers[1]
        /\ event.headers[1]["content-type"] \in
              {"application/json", "application/json; charset=utf-8"}

\* C9, as stated: the controller enters Validating only when a body schema is
\* configured, the request declares a JSON content type and its method is POST
\* or PUT; any other request skips the gate and raises no SchemaValidationError.
C9_ValidatesOnlyJsonWrites ==
    InValidation =>
        /\ config.bodySchema
        /\ event.httpMethod \in {"POST", "PUT"}
        /\ PassedContentTypeCheck

\* C9, amended: the controller enters Validating whenever a body schema is
\* configured and the request passed the content-type check, whatever its
\* method (a GET too, its absent body read as {}); the gate is skipped, and no
\* SchemaValidationError raised, only when no body schema is configured.
C9_ValidatesWheneverSchema ==
    /\ InValidation => config.bodySchema /\ PassedContentTypeCheck
    /\ pc \in {"extracting", "running", "awaiting", "serializing"} /\ config.bodySchema
          => validated
    /\ pc = "done" /\ Status = 200 /\ config.bodySchema => validated

\* a GET without a body is rejected by the schema
C9_Witness ==
    /\ event.httpMethod = "GET"
    /\ event.body = <<>>
    /\ validated
    /\ pc = "done"
    /\ Status = 400

\* C10, as stated: when stage i's Observable completes without a value the
\* chain continues with an absent value: every later stage is still run.
C10_EmptyObservableContinues ==
    pc = "done" /\ failed # <<>> /\ failed[1].cause = "empty" =>
        \A k \in Stages :
            k > failed[1].stage /\ k < config.handlers => executed[k] > 0

----------------------------------------------------------------------------
(* Properties of the empty chain, the classifier and the steps before the chain *)

NoStageStarted == \A k \in Stages : created[k] = 0 /\ executed[k] = 0

EmptyChainSucceeded == config.handlers = 0 /\ pc = "done" /\ thrown = <<>>

\* C11, as stated: with an empty handler chain a request that passes validation
\* and extraction succeeds with an absent result: status 200, and the body is
\* the serialization of the absent value, not of the initial query.
C11_EmptyChainAbsentResult ==
    EmptyChainSucceeded =>
        /\ Status = 200
        /\ response[1].body.text = << <<"n", "u", "l", "l">> >>

\* C11, amended: with an empty handler chain a request that passes validation
\* and extraction succeeds with the extracted initial query as its result: no
\* stage runs, the status is 200 and the body is the serialization of the
\* initial query ({} when no query reflector is configured).
C11_EmptyChainGivesInitialQuery ==
    /\ config.handlers = 0 => NoStageStarted /\ pc \notin {"running", "awaiting"}
    /\ config.handlers = 0 /\ pc = "serializing" =>
          result = IF config.initialQueryReflector THEN ReflectedQuery ELSE EmptyObject
    /\ EmptyChainSucceeded =>
          /\ Status = 200
          /\ response[1].body.text =
                IF config.initialQueryReflector
                THEN << <<"{", "q", "}">> >>
                ELSE << <<"{", "}">> >>

\* an empty chain answered 200 with the reflected query as the body
C11_Witness ==
    /\ EmptyChainSucceeded
    /\ config.initialQueryReflector
    /\ Status = 200
    /\ response[1].body.text = << <<"{", "q", "}">> >>

\* a rule of another status than code, the user's or a built-in one, matches
OtherStatusMatches(error, code) ==
    \/ BuiltInStatus(error) \notin {0, code}
    \/ \E other \in DOMAIN UserRules \ {code} : SomeInstanceOf(error, UserRules[other])

\* C12, as stated: for every status S, 400, 408 and 413 included, an error that
\* is an instance of a class the user listed under S, and that matches no rule
\* of another status, gives a response with status S.
C12_UserRuleOfEveryStatusKept ==
    pc = "done" /\ thrown # <<>> =>
        \A code \in DOMAIN UserRules :
            /\ SomeInstanceOf(thrown[1], UserRules[code])
            /\ ~OtherStatusMatches(thrown[1], code)
            => Status = code

\* the invocation failed in the content-type check, the validation or the
\* extraction: an error was thrown before the chain was subscribed to
PreChainFailure ==
    /\ thrown # <<>>
    /\ failed = <<>>
    /\ serialized = <<>>
    /\ timer = <<>>

WellFormedBody ==
    /\ event.body # <<>>
    /\ event.body[1] \in {"{}", ValidBody, ReshapedBody}

\* C13: a request rejected at the content-type check, failing the schema or
\* failing extraction (malformed body) fails without any stage factory invoked
\* or stage run: a stage starts only for a request that passed all three.  An
\* extraction failure is a SyntaxError answered 500 by default, a validation
\* failure a SchemaValidationError answered 400.
C13_PreChainFailureRunsNoStage ==
    /\ PreChainFailure => NoStageStarted
    /\ thrown # <<>> /\ thrown[1].kind \in {"SchemaValidationError", "SyntaxError"}
          => PreChainFailure
    /\ ~NoStageStarted =>
          /\ PassedContentTypeCheck
          /\ config.bodySchema => validated
          /\ config.initialBodyReflector => WellFormedBody
    /\ pc = "done" /\ thrown # <<>> /\ UserRules = NoRules =>
          /\ thrown[1].kind = "SyntaxError" =>
                /\ Status = 500
                /\ response[1].body.error[1].validationErrors = <<>>
          /\ thrown[1].kind = "SchemaValidationError" => Status = 400

\* a malformed body failed the extraction: answered 500, and no stage of the
\* chain was created
C13_Witness ==
    /\ pc = "done"
    /\ thrown = <<SyntaxErr>>
    /\ event.body = <<"{bad">>
    /\ config.initialBodyReflector
    /\ ~config.bodySchema
    /\ config.handlers = 1
    /\ NoStageStarted
    /\ Status = 500

\* the request declares a JSON content type: header names are case-insensitive
DeclaresJson ==
    /\ event.headers # <<>>
    /\ \E name \in {"content-type", "Content-Type"} \cap DOMAIN event.headers[1] :
          event.headers[1][name] \in
              {"application/json", "application/json; charset=utf-8"}

\* C14, as stated: a POST or PUT that declares a JSON content type is never
\* rejected with the content-type error, whatever the letter case of the header
\* name; only a POST or PUT without a JSON declaration is, with status 500 by
\* default.
C14_ContentTypeNameAnyCase ==
    thrown = <<ContentTypeError>> =>
        /\ event.httpMethod \in {"POST", "PUT"}
        /\ ~DeclaresJson
        /\ pc = "done" /\ UserRules = NoRules => Status = 500

\* C15, as stated: when a body reflector is configured and the request body is
\* absent or empty, the body extraction is skipped without error and the
\* pipeline goes on to the query extraction and the chain.
C15_AbsentBodySkipsReshaping ==
    config.initialBodyReflector /\ Falsy(event.body) =>
        /\ thrown # <<SyntaxErr>>
        /\ pc = "done" /\ thrown = <<>> /\ config.handlers > 0 => created[0] = 1

----------------------------------------------------------------------------
(* Properties of the deadline *)

RECURSIVE SumUpTo(_, _)
SumUpTo(f, k) == IF k < 0 THEN 0 ELSE f[k] + SumUpTo(f, k - 1)

\* the time the stages of the chain have taken together
TotalRunningTime == SumUpTo(spent, MaxChain - 1)

\* C16, as stated: the deadline timer is armed once and never reset when a
\* stage completes, so the budget is shared by all stages: a chain whose stages
\* each finish within timeoutMs but whose total running time exceeds timeoutMs
\* ends with a timeout failure.
C16_OneTimerSharedBudget ==
    /\ pc = "done"
    /\ \A k \in Stages : spent[k] <= timeoutMs(config)
    /\ TotalRunningTime > timeoutMs(config)
    => /\ thrown = <<RequestTimeoutErr>>
       /\ Status # 200

----------------------------------------------------------------------------
(* Properties of the response headers *)

ConfiguredHeaders ==
    IF builderConfig.headers = <<>> THEN DEFAULT_SECURITY_HEADERS
    ELSE builderConfig.headers[1]

\* the value Origin Policy computes from the header named origin
ComputedOrigin ==
    LET listed == builderConfig.corsOriginWhitelist
    IN  IF listed = <<>> \/ "origin" \notin DOMAIN event.headers[1] THEN "*"
        ELSE IF \E k \in DOMAIN listed[1] : listed[1][k] = event.headers[1]["origin"]
             THEN event.headers[1]["origin"]
             ELSE "null"

\* C17: in every response, success or failure, the headers are the configured
\* security headers, overwritten by the one Access-Control-Allow-Origin header
\* Origin Policy computed, overwritten by Content-Type: application/json; a
\* configured header of either name never reaches the response with its
\* configured value.
C17_HeaderOverwriteOrder ==
    pc = "done" =>
        LET headers == response[1].headers
        IN  /\ DOMAIN headers =
                  DOMAIN ConfiguredHeaders \cup {"Access-Control-Allow-Origin", "Content-Type"}
            /\ headers["Content-Type"] = "application/json"
            /\ headers["Access-Control-Allow-Origin"] = ComputedOrigin
            /\ \A name \in DOMAIN ConfiguredHeaders
                      \ {"Access-Control-Allow-Origin", "Content-Type"} :
                  headers[name] = ConfiguredHeaders[name]

\* an error response built over configured security headers that name both
\* Access-Control-Allow-Origin and Content-Type, for an origin that is not listed
C17_Witness ==
    /\ pc = "done"
    /\ builderConfig.headers = <<CustomHeaders>>
    /\ builderConfig.corsOriginWhitelist = <<<<AllowedOrigin>>>>
    /\ Status = 400
    /\ response[1].headers["X-Custom-Security"] = "MyCustomValue"
    /\ response[1].headers["Access-Control-Allow-Origin"] = "null"
    /\ response[1].headers["Content-Type"] = "application/json"

----------------------------------------------------------------------------
(* Properties of the chain under failure and timeout *)

\* C18: within one invocation every stage factory is invoked at most once and
\* every stage's run operation is executed at most once: no stage is started
\* again after a stage failed, was slow, or after the timeout.
C18_EachStageAtMostOnce ==
    /\ \A k \in Stages :
          /\ created[k] <= 1
          /\ executed[k] <= created[k]
    /\ failed # <<>> => ~Running
    /\ abandoned # <<>> => ~Running

\* a second stage that was awaited for some time and then rejected: each of
\* the two stages was created and run once
C18_Witness ==
    /\ pc = "done"
    /\ config.handlers = 2
    /\ failed # <<>>
    /\ failed[1].stage = 1
    /\ failed[1].cause = "rejected"
    /\ spent[1] > 0
    /\ \A k \in Stages : created[k] = 1 /\ executed[k] = 1

\* the user's rules that come before 408 and list RequestTimeoutError or a
\* class it extends
RulesBefore408 ==
    {code \in DOMAIN UserRules :
        /\ code < 408
        /\ \E k \in DOMAIN UserRules[code] :
              UserRules[code][k] \in {"RequestTimeoutError", "Error"}}

\* C19: once the timeout failure has been raised while stage i was awaited, no
\* stage after i is ever created or run, also when stage i's work completes
\* later with a value; the late result does not change the response, which is
\* the one of the timeout (408 under the built-in rules).
C19_LateResultIgnored ==
    abandoned # <<>> =>
        /\ \A k \in Stages : k > abandoned[1].stage => created[k] = 0 /\ executed[k] = 0
        /\ i = abandoned[1].stage
        /\ created[i] = 1 /\ executed[i] = 1
        /\ thrown = <<RequestTimeoutErr>>
        /\ pc \in {"catch", "done"}
        /\ pc = "done" =>
              /\ Status = IF RulesBefore408 = {} THEN 408 ELSE Min(RulesBefore408)
              /\ response[1].body.text = <<>>
              /\ response[1].body.error[1].message = "Request timeout"
              /\ response[1].body.error[1].code = Status

\* the first of two stages was awaited when the timer fired; its work completed
\* after the 408 response was returned, and the second stage never started
C19_Witness ==
    /\ abandoned # <<>>
    /\ abandoned[1].completed
    /\ abandoned[1].stage = 0
    /\ config.handlers = 2
    /\ pc = "done"
    /\ Status = 408
    /\ created[1] = 0

----------------------------------------------------------------------------
(* Properties of the validation findings *)

\* the key the finding of a missing or extra field is to carry: the dotted
\* parent path with the field's name appended, the bare name at the root
FieldKey(error, field) ==
    LET parent == SelectSeq(error.instancePath, NonEmptyString)
    IN  IF parent = <<>> THEN <<field>> ELSE Join(parent) \o <<".", field>>

HasFinding(key, message) ==
    \E j \in DOMAIN thrown[1].errors[1] :
        thrown[1].errors[1][j] = [key |-> key, message |-> message]

\* C20, as stated: for every validator finding about a missing required field
\* or a disallowed extra field, the finding's key is the dotted parent path with
\* the field's name appended (the bare name at the root), for every instance
\* path, nested ones included.
C20_FieldNameAppendedToPath ==
    reported # <<>> =>
        \A k \in DOMAIN reported[1] :
            LET error == reported[1][k]
            IN  /\ error.missingProperty # <<>> =>
                      HasFinding(FieldKey(error, error.missingProperty[1]), error.message[1])
                /\ error.additionalProperty # <<>> =>
                      HasFinding(FieldKey(error, error.additionalProperty[1]), error.message[1])

====
